---- MODULE Spec2Model ----
(***************************************************************************)
(* The snake engine of src/snake_game.py (class ProfessionalSnakeGame):    *)
(* reset_game, generate_food, move and the event handling of run.          *)
(* Positions are pixel coordinates, as in the source: every cell is the    *)
(* pair <<x, y>> of its top-left corner.  Speeds are in tenths, so that    *)
(* SPEED_INCREMENT = 0.4 is the integer 4; the rounding error of the       *)
(* double the source computes is kept beside it in speed_err.              *)
(* Spec takes every handler as one step; SamplingSpec takes the loop of    *)
(* generate_food one pass at a time, with a fair random source.            *)
(***************************************************************************)
EXTENDS Integers, Sequences, FiniteSets, TLC

\* ------------------------------------------------------------------ bounds
\* The screen of the source is 800 x 600.  The model checks a smaller screen
\* with the same remainders modulo CELL_SIZE (800 % 28 = 16, 600 % 28 = 12).
WIDTH == 128
HEIGHT == 124
\* move is not taken when it would eat the (MaxScore + 1)-th food.
MaxScore == 4

\* ------------------------------------------------------- program constants
CELL_SIZE == 28
INITIAL_SPEED == 100
SPEED_INCREMENT == 4
MAX_SPEED == 240

UP == <<0, -1>>
DOWN == <<0, 1>>
LEFT == <<-1, 0>>
RIGHT == <<1, 0>>

\* The keys that a KEYDOWN event of run carries; K_a stands for every key
\* the loop has no branch for.
ArrowKeys == {"K_UP", "K_DOWN", "K_LEFT", "K_RIGHT"}
OtherKeys == {"K_a"}

VARIABLES
  snake,          \* self.snake: sequence of cells, head first
  direction,      \* self.direction
  food,           \* self.food
  score,          \* self.score
  game_over,      \* self.game_over
  current_speed,  \* self.current_speed, in tenths, without the rounding error
  speed_err,      \* the rounding error of self.current_speed (see FloatAdd)
  pc,             \* where run is: "run", "quit", or "generate_food" (looping)
  last_op,        \* history: the operation that produced this state; "reset_game"
                  \* is a K_SPACE that restarted, "K_SPACE" one that did not
  move_dir        \* history: direction used by the last move since reset_game

state == <<snake, direction, food, score, game_over, current_speed, speed_err>>
vars == <<snake, direction, food, score, game_over, current_speed, speed_err, pc, last_op, move_dir>>

NoDir == <<0, 0>>

Min(a, b) == IF a <= b THEN a ELSE b

Cells(s) == {s[i] : i \in DOMAIN s}

Front(s) == SubSeq(s, 1, Len(s) - 1)

\* ---------------------------------------------------------- generate_food
FoodRegionWholeGrid ==
  {<<x * CELL_SIZE, y * CELL_SIZE>> :
     x \in 0..((WIDTH \div CELL_SIZE) - 1), y \in 0..((HEIGHT \div CELL_SIZE) - 1)}

\* The cells random.randint can draw.
FoodRegion ==
  {<<x * CELL_SIZE, y * CELL_SIZE>> :
     x \in 1..((WIDTH \div CELL_SIZE) - 2), y \in 1..((HEIGHT \div CELL_SIZE) - 2)}

FoodAcceptedAlways(food_pos, s) == TRUE

FoodAcceptedInverted(food_pos, s) == food_pos \in Cells(s)

\* food_pos not in self.snake
FoodAccepted(food_pos, s) == food_pos \notin Cells(s)

\* The values generate_food can return when the snake is s; when the set is
\* empty the while loop never returns.
generate_food(s) == {food_pos \in FoodRegion : FoodAccepted(food_pos, s)}

\* ------------------------------------------------------------- reset_game
start_xUnaligned == WIDTH \div 2

start_x == ((WIDTH \div 2) \div CELL_SIZE) * CELL_SIZE
start_y == ((HEIGHT \div 2) \div CELL_SIZE) * CELL_SIZE

reset_gameKeepsScore ==
  /\ snake' = << <<start_x, start_y>> >>
  /\ direction' = RIGHT
  /\ move_dir' = NoDir
  /\ IF generate_food(<< <<start_x, start_y>> >>) = {}
       THEN /\ pc' = "generate_food"
            /\ UNCHANGED <<food, score, game_over, current_speed, speed_err>>
       ELSE /\ food' \in generate_food(<< <<start_x, start_y>> >>)
            /\ score' = score
            /\ game_over' = FALSE
            /\ current_speed' = INITIAL_SPEED
            /\ speed_err' = 0
            /\ pc' = pc

reset_gameKeepsSpeed ==
  /\ snake' = << <<start_x, start_y>> >>
  /\ direction' = RIGHT
  /\ move_dir' = NoDir
  /\ IF generate_food(<< <<start_x, start_y>> >>) = {}
       THEN /\ pc' = "generate_food"
            /\ UNCHANGED <<food, score, game_over, current_speed, speed_err>>
       ELSE /\ food' \in generate_food(<< <<start_x, start_y>> >>)
            /\ score' = 0
            /\ game_over' = FALSE
            /\ current_speed' = current_speed
            /\ speed_err' = speed_err
            /\ pc' = pc

reset_game ==
  /\ snake' = << <<start_x, start_y>> >>
  /\ direction' = RIGHT
  /\ move_dir' = NoDir
  /\ IF generate_food(<< <<start_x, start_y>> >>) = {}
       THEN /\ pc' = "generate_food"
            /\ UNCHANGED <<food, score, game_over, current_speed, speed_err>>
       ELSE /\ food' \in generate_food(<< <<start_x, start_y>> >>)
            /\ score' = 0
            /\ game_over' = FALSE
            /\ current_speed' = INITIAL_SPEED
            /\ speed_err' = 0
            /\ pc' = pc

Init ==
  /\ snake = << <<start_x, start_y>> >>
  /\ direction = RIGHT
  /\ food \in generate_food(<< <<start_x, start_y>> >>)
  /\ score = 0
  /\ game_over = FALSE
  /\ current_speed = INITIAL_SPEED
  /\ speed_err = 0
  /\ pc = "run"
  /\ last_op = "__init__"
  /\ move_dir = NoDir

\* ------------------------------------------------------------------- move
NewHeadSameDelta(head, d) == <<head[1] + d[1] * CELL_SIZE, head[2] + d[1] * CELL_SIZE>>

NewHead(head, d) == <<head[1] + d[1] * CELL_SIZE, head[2] + d[2] * CELL_SIZE>>

BoundaryCollisionAtEdge(new_head) ==
  \/ new_head[1] <= 0
  \/ new_head[1] >= WIDTH
  \/ new_head[2] <= 0
  \/ new_head[2] >= HEIGHT

\* Boundary collision check
BoundaryCollision(new_head) ==
  \/ new_head[1] < 0
  \/ new_head[1] >= WIDTH
  \/ new_head[2] < 0
  \/ new_head[2] >= HEIGHT

SelfCollisionExceptTail(new_head, s) == new_head \in Cells(Front(s))

SelfCollisionNever(new_head, s) == FALSE

\* Self-collision check
SelfCollision(new_head, s) == new_head \in Cells(s)

\* pygame.Rect(a[0], a[1], CELL_SIZE, CELL_SIZE).colliderect(
\*   pygame.Rect(b[0], b[1], CELL_SIZE, CELL_SIZE))
colliderect(a, b) ==
  /\ a[1] < b[1] + CELL_SIZE
  /\ b[1] < a[1] + CELL_SIZE
  /\ a[2] < b[2] + CELL_SIZE
  /\ b[2] < a[2] + CELL_SIZE

GrowNever(new_head, s, eaten) == Front(<<new_head>> \o s)

GrowPopsHead(new_head, s, eaten) ==
  IF eaten THEN <<new_head>> \o s ELSE Tail(<<new_head>> \o s)

\* self.snake.insert(0, new_head), then self.snake.pop() unless food was eaten
Grow(new_head, s, eaten) ==
  IF eaten THEN <<new_head>> \o s ELSE Front(<<new_head>> \o s)

NextScoreEveryMove(sc, eaten) == sc + 1

NextScore(sc, eaten) == IF eaten THEN sc + 1 ELSE sc

Max(a, b) == IF a >= b THEN a ELSE b

\* ------------------------------------------------- floating point speed
\* self.current_speed is a Python float (IEEE double) from the first food
\* on.  With u = 2^-53 / 5, the double it holds is exactly
\*     current_speed / 10  +  speed_err * u.
\* In units of u the doubles in [8,16) are the multiples of 80 (2^-49) and
\* those in [16,32) the multiples of 160 (2^-48); t / 10 is t * 2^52 units.

RECURSIVE PowMod(_, _, _)
PowMod(b, k, n) == IF k = 0 THEN 1 % n ELSE (b * PowMod(b, k - 1, n)) % n

\* The literal 0.4 is the double 0.4 + 1 * u.
SPEED_INCREMENT_ERR == 1

\* Spacing of the doubles around t / 10 + e * u, in units of u.
Ulp(t, e) == IF t < 160 \/ (t = 160 /\ e < 0) THEN 80 ELSE 160

\* The error, in units of u against t / 10, of the double nearest to
\* t / 10 + e * u (round to nearest, ties to even).
RoundToDouble(t, e) ==
  LET g == Ulp(t, e)
      pos == (PowMod(2, 52, 2 * g) * t + e) % (2 * g)
      rho == pos % g
  IN IF 2 * rho < g THEN e - rho
     ELSE IF 2 * rho > g THEN e + g - rho
     ELSE IF pos >= g THEN e + g - rho
     ELSE e - rho

\* self.current_speed + SPEED_INCREMENT in double arithmetic: the error of
\* the sum against (sp + SPEED_INCREMENT) / 10.
FloatAdd(sp, err) == RoundToDouble(sp + SPEED_INCREMENT, err + SPEED_INCREMENT_ERR)

\* The error after min(self.current_speed + SPEED_INCREMENT, MAX_SPEED):
\* MAX_SPEED, the integer 24, is taken when the sum is above it.
NextSpeedErr(sp, err, eaten) ==
  IF ~eaten THEN err
  ELSE IF sp + SPEED_INCREMENT > MAX_SPEED
            \/ (sp + SPEED_INCREMENT = MAX_SPEED /\ FloatAdd(sp, err) > 0)
         THEN 0
  ELSE FloatAdd(sp, err)

NextSpeedMax(sp, eaten) == IF eaten THEN Max(sp + SPEED_INCREMENT, MAX_SPEED) ELSE sp

NextSpeed(sp, eaten) == IF eaten THEN Min(sp + SPEED_INCREMENT, MAX_SPEED) ELSE sp

\* The value move returns: it has no return statement with a value, so every
\* path gives Python's None.
MoveResult == "None"

\* if self.game_over: return
MoveReturnsAtOnce == game_over

moveInsertsBeforeChecks ==
  /\ pc = "run"
  /\ last_op' = "move"
  /\ IF MoveReturnsAtOnce
       THEN UNCHANGED <<state, pc, move_dir>>
       ELSE LET new_head == NewHead(snake[1], direction)
                eaten == colliderect(new_head, food)
                grown == Grow(new_head, snake, eaten)
            IN /\ move_dir' = direction
               /\ IF BoundaryCollision(new_head) \/ SelfCollision(new_head, snake)
                    THEN /\ game_over' = TRUE
                         /\ snake' = <<new_head>> \o snake
                         /\ UNCHANGED <<direction, food, score, current_speed, speed_err, pc>>
                    ELSE /\ eaten => score < MaxScore
                         /\ snake' = grown
                         /\ score' = NextScore(score, eaten)
                         /\ current_speed' = NextSpeed(current_speed, eaten)
                         /\ speed_err' = NextSpeedErr(current_speed, speed_err, eaten)
                         /\ UNCHANGED <<direction, game_over>>
                         /\ IF ~eaten
                              THEN UNCHANGED <<food, pc>>
                              ELSE IF generate_food(grown) = {}
                                     THEN pc' = "generate_food" /\ food' = food
                                     ELSE food' \in generate_food(grown) /\ pc' = pc

move ==
  /\ pc = "run"
  /\ last_op' = "move"
  /\ IF MoveReturnsAtOnce
       THEN UNCHANGED <<state, pc, move_dir>>
       ELSE LET new_head == NewHead(snake[1], direction)
                eaten == colliderect(new_head, food)
                grown == Grow(new_head, snake, eaten)
            IN /\ move_dir' = direction
               /\ IF BoundaryCollision(new_head) \/ SelfCollision(new_head, snake)
                    THEN /\ game_over' = TRUE
                         /\ UNCHANGED <<snake, direction, food, score, current_speed, speed_err, pc>>
                    ELSE /\ eaten => score < MaxScore
                         /\ snake' = grown
                         /\ score' = NextScore(score, eaten)
                         /\ current_speed' = NextSpeed(current_speed, eaten)
                         /\ speed_err' = NextSpeedErr(current_speed, speed_err, eaten)
                         /\ UNCHANGED <<direction, game_over>>
                         /\ IF ~eaten
                              THEN UNCHANGED <<food, pc>>
                              ELSE IF generate_food(grown) = {}
                                     THEN pc' = "generate_food" /\ food' = food
                                     ELSE food' \in generate_food(grown) /\ pc' = pc

\* -------------------------------------------------------------------- run
KeyDirectionNoReverseCheck(key, d, over) ==
  IF over THEN d
  ELSE IF key = "K_UP" THEN UP
  ELSE IF key = "K_DOWN" THEN DOWN
  ELSE IF key = "K_LEFT" THEN LEFT
  ELSE IF key = "K_RIGHT" THEN RIGHT
  ELSE d

KeyDirectionWhileOver(key, d, over) ==
  IF key = "K_UP" /\ d # DOWN THEN UP
  ELSE IF key = "K_DOWN" /\ d # UP THEN DOWN
  ELSE IF key = "K_LEFT" /\ d # RIGHT THEN LEFT
  ELSE IF key = "K_RIGHT" /\ d # LEFT THEN RIGHT
  ELSE d

\* The if/elif chain of the arrow keys, under "if not self.game_over".
KeyDirection(key, d, over) ==
  IF over THEN d
  ELSE IF key = "K_UP" /\ d # DOWN THEN UP
  ELSE IF key = "K_DOWN" /\ d # UP THEN DOWN
  ELSE IF key = "K_LEFT" /\ d # RIGHT THEN LEFT
  ELSE IF key = "K_RIGHT" /\ d # LEFT THEN RIGHT
  ELSE d

SpaceResetsAlways == TRUE

\* if self.game_over: self.reset_game()
SpaceResets == game_over

\* event.type == pygame.QUIT
QuitEvent ==
  /\ pc = "run"
  /\ pc' = "quit"
  /\ last_op' = "QUIT"
  /\ UNCHANGED <<state, move_dir>>

\* KEYDOWN with event.key == pygame.K_q
KeyQuit ==
  /\ pc = "run"
  /\ pc' = "quit"
  /\ last_op' = "K_q"
  /\ UNCHANGED <<state, move_dir>>

\* KEYDOWN with event.key == pygame.K_SPACE
KeySpace ==
  /\ pc = "run"
  /\ last_op' = IF SpaceResets THEN "reset_game" ELSE "K_SPACE"
  /\ IF SpaceResets
       THEN reset_game
       ELSE UNCHANGED <<state, pc, move_dir>>

\* KEYDOWN with any other key
KeyDown(key) ==
  /\ pc = "run"
  /\ last_op' = key
  /\ direction' = KeyDirection(key, direction, game_over)
  /\ UNCHANGED <<snake, food, score, game_over, current_speed, speed_err, pc, move_dir>>

Next ==
  \/ QuitEvent
  \/ KeyQuit
  \/ KeySpace
  \/ \E key \in ArrowKeys \cup OtherKeys : KeyDown(key)
  \/ move

Spec == Init /\ [][Next]_vars

\* ------------------------------------------- generate_food as a loop
\* The same program with the while loop of generate_food taken one pass at a
\* time: a call puts run at "generate_food", and every pass draws one
\* candidate.  last_op is the caller: after a return into reset_game the
\* assignments of lines 84-86 follow.

\* One pass of "while True" with the candidate food_pos.
Sample(food_pos) ==
  /\ pc = "generate_food"
  /\ IF FoodAccepted(food_pos, snake)
       THEN /\ food' = food_pos
            /\ pc' = "run"
            /\ IF last_op = "reset_game"
                 THEN /\ score' = 0
                      /\ game_over' = FALSE
                      /\ current_speed' = INITIAL_SPEED
                      /\ speed_err' = 0
                 ELSE UNCHANGED <<score, game_over, current_speed, speed_err>>
       ELSE UNCHANGED <<food, pc, score, game_over, current_speed, speed_err>>
  /\ UNCHANGED <<snake, direction, last_op, move_dir>>

\* move, entering the loop at line 142.
move_sampling ==
  /\ pc = "run"
  /\ last_op' = "move"
  /\ IF MoveReturnsAtOnce
       THEN UNCHANGED <<state, pc, move_dir>>
       ELSE LET new_head == NewHead(snake[1], direction)
                eaten == colliderect(new_head, food)
                grown == Grow(new_head, snake, eaten)
            IN /\ move_dir' = direction
               /\ IF BoundaryCollision(new_head) \/ SelfCollision(new_head, snake)
                    THEN /\ game_over' = TRUE
                         /\ UNCHANGED <<snake, direction, food, score, current_speed, speed_err, pc>>
                    ELSE /\ eaten => score < MaxScore
                         /\ snake' = grown
                         /\ score' = NextScore(score, eaten)
                         /\ current_speed' = NextSpeed(current_speed, eaten)
                         /\ speed_err' = NextSpeedErr(current_speed, speed_err, eaten)
                         /\ UNCHANGED <<direction, game_over>>
                         /\ IF ~eaten
                              THEN UNCHANGED <<food, pc>>
                              ELSE pc' = "generate_food" /\ food' = food

\* KEYDOWN with event.key == pygame.K_SPACE, entering the loop at line 83.
KeySpace_sampling ==
  /\ pc = "run"
  /\ last_op' = IF SpaceResets THEN "reset_game" ELSE "K_SPACE"
  /\ IF SpaceResets
       THEN /\ snake' = << <<start_x, start_y>> >>
            /\ direction' = RIGHT
            /\ move_dir' = NoDir
            /\ pc' = "generate_food"
            /\ UNCHANGED <<food, score, game_over, current_speed, speed_err>>
       ELSE UNCHANGED <<state, pc, move_dir>>

NextSampling ==
  \/ QuitEvent
  \/ KeyQuit
  \/ KeySpace_sampling
  \/ \E key \in ArrowKeys \cup OtherKeys : KeyDown(key)
  \/ move_sampling
  \/ \E food_pos \in FoodRegion : Sample(food_pos)

\* random.randint is fair: a candidate that would be accepted is not passed
\* over for ever.
SamplingSpec ==
  /\ Init
  /\ [][NextSampling]_vars
  /\ \A food_pos \in FoodRegion : WF_vars(Sample(food_pos))

\* ------------------------------------------------------------- vocabulary
\* The grid of the specification: W x H cells, cell = pixel \div CELL_SIZE.
W == WIDTH \div CELL_SIZE
H == HEIGHT \div CELL_SIZE

CellOf(p) == <<p[1] \div CELL_SIZE, p[2] \div CELL_SIZE>>

SnakeCells == {CellOf(snake[i]) : i \in DOMAIN snake}

Opposite(d) == <<-d[1], -d[2]>>

\* The direction an arrow key requests.
KeyDir(key) ==
  CASE key = "K_UP" -> UP
    [] key = "K_DOWN" -> DOWN
    [] key = "K_LEFT" -> LEFT
    [] key = "K_RIGHT" -> RIGHT

\* The cell one step ahead of the head in the current direction.
NextCell == <<CellOf(snake[1])[1] + direction[1], CellOf(snake[1])[2] + direction[2]>>

OutsideGrid(c) == c[1] < 0 \/ c[1] >= W \/ c[2] < 0 \/ c[2] >= H

\* The direction committed by the previous step (Right after a reset).
Committed == IF move_dir = NoDir THEN RIGHT ELSE move_dir

\* A step of move on a running game.
RunningStep == last_op' = "move" /\ ~game_over

\* The restart: K_SPACE while game-over.
ResetStep == last_op' = "reset_game" /\ game_over

\* ----------------------------------------------------------------- claims

\* C1: while the game is running, an arrow key that requests the exact
\* opposite of the current direction leaves the direction (and everything
\* else of the engine) unchanged, whatever the snake's length; and the step
\* that follows such a request, when it does not collide, puts the head one
\* cell further in that same direction.
C1_AntiReverse ==
  [][\A key \in ArrowKeys :
       /\ (~game_over /\ last_op' = key /\ KeyDir(key) = Opposite(direction))
            => UNCHANGED state
       /\ (~game_over /\ last_op = key /\ KeyDir(key) = Opposite(direction)
             /\ last_op' = "move" /\ ~game_over')
            => CellOf(snake'[1]) = NextCell
    ]_vars

\* A reverse request has just been handled on a running game with a body.
C1_Witness ==
  /\ ~game_over
  /\ pc = "run"
  /\ Len(snake) >= 2
  /\ last_op \in ArrowKeys
  /\ KeyDir(last_op) = Opposite(direction)

\* C2: the direction a step uses is never the reverse of the direction the
\* previous step used, however many keys were handled in between.
C2_NoReversalBetweenSteps ==
  [][(RunningStep /\ move_dir # NoDir) => direction # Opposite(move_dir)]_vars

\* C3: every request is validated against the direction committed by the
\* previous step: one that is not its reverse becomes the direction of the
\* next step (the last such request wins), one that is its reverse is
\* ignored.
C3_LastWriteWins ==
  [][\A key \in ArrowKeys :
       (~game_over /\ last_op' = key)
         => direction' = IF KeyDir(key) = Opposite(Committed)
                           THEN direction ELSE KeyDir(key)
    ]_vars

\* C4: a step of a running game whose new head cell is outside
\* [0,W) x [0,H) sets game_over and leaves the snake where it is.
C4_BoundaryCheck ==
  [][(RunningStep /\ OutsideGrid(NextCell)) => (game_over' /\ snake' = snake)]_vars

\* C5: when the direction is the one the previous step used, a step ends the
\* game exactly when its new head cell is outside [0,W) x [0,H); and once the
\* game is over no step changes the engine.
C5_BoundaryTermination ==
  [][/\ (RunningStep /\ direction = Committed)
          => (game_over' <=> OutsideGrid(NextCell))
     /\ (last_op' = "move" /\ game_over) => UNCHANGED state
    ]_vars

\* C6: while game_over holds, move and every key other than the restart
\* leave snake, direction, food, score, speed and game_over unchanged, and
\* the restart makes the game running again.
C6_GameOverAbsorbing ==
  [][game_over =>
       IF last_op' = "reset_game" THEN ~game_over' ELSE UNCHANGED state
    ]_vars

\* The game is over and a request for a perpendicular direction, which a
\* running game would accept, has just been handled.
C6_Witness ==
  /\ game_over
  /\ last_op \in ArrowKeys
  /\ KeyDir(last_op) # direction
  /\ KeyDir(last_op) # Opposite(direction)

\* C7: whenever no operation is in progress (generate_food is not looping),
\* the food cell is not a cell of the snake.
C7_FoodNotOnSnake ==
  pc # "generate_food" => CellOf(food) \notin SnakeCells

\* Food has been eaten and replaced several times.
C7_Witness ==
  /\ pc = "run"
  /\ last_op = "move"
  /\ score >= 3
  /\ Cardinality(FoodRegion \ Cells(snake)) >= 1
  /\ Cardinality(FoodRegion \ Cells(snake)) < Cardinality(FoodRegion) - 1

\* C8: a step of a running game that does not collide makes the snake one
\* cell longer when the new head cell is the food cell, and keeps its length
\* otherwise.
C8_LengthInvariant ==
  [][(RunningStep /\ ~game_over')
       => Len(snake') = Len(snake) + (IF NextCell = CellOf(food) THEN 1 ELSE 0)
    ]_vars

\* A running snake that has grown twice and has just stepped.
C8_Witness ==
  /\ ~game_over
  /\ last_op = "move"
  /\ Len(snake) = 3

\* C9: score is never negative; a non-colliding step of a running game onto
\* the food cell adds exactly 1, and every other step and every key except
\* the restart leaves it unchanged.
C9_ScoreCorrectness ==
  /\ [](score >= 0)
  /\ [][IF RunningStep /\ ~game_over' /\ NextCell = CellOf(food)
          THEN score' = score + 1
          ELSE ~ResetStep => score' = score
       ]_vars

\* A step has just been taken with two foods eaten.
C9_Witness ==
  /\ score = 2
  /\ last_op = "move"
  /\ pc = "run"

\* t1 / 10 + e1 * u <= t2 / 10 + e2 * u, for errors far below a tenth.
SpeedLeq(t1, e1, t2, e2) == t1 < t2 \/ (t1 = t2 /\ e1 <= e2)

C11_StrictSelfCollision ==
  [][(RunningStep /\ NextCell \in SnakeCells) => game_over']_vars

\* The game has ended on a step whose new head was the tail cell.
C11_Witness ==
  /\ game_over
  /\ last_op = "move"
  /\ Len(snake) >= 4
  /\ NextCell = CellOf(snake[Len(snake)])

\* The snake as a sequence of cells.
SnakeCellSeq == [i \in DOMAIN snake |-> CellOf(snake[i])]

\* C12: after construction and after every restart the engine is running
\* (reset_game has returned) with a snake of exactly one cell at the grid
\* centre <<W \div 2, H \div 2>>, direction Right, score 0, speed
\* INITIAL_SPEED, and a food cell that is not the head cell.
C12_ResetState ==
  last_op \in {"__init__", "reset_game"} =>
    /\ pc = "run"
    /\ SnakeCellSeq = << <<W \div 2, H \div 2>> >>
    /\ direction = RIGHT
    /\ score = 0
    /\ current_speed = INITIAL_SPEED
    /\ speed_err = 0
    /\ ~game_over
    /\ CellOf(food) # CellOf(snake[1])

\* A finished game has just been restarted.
C12_Witness ==
  /\ last_op = "reset_game"
  /\ ~game_over
  /\ pc = "run"

\* C13: a step of a running game that ends in a collision changes only
\* game_over: snake, direction, food, score and speed are as before, and the
\* loop goes on.
C13_CollisionChangesOnlyAlive ==
  [][(RunningStep /\ game_over')
       => (UNCHANGED <<snake, direction, food, score, current_speed, speed_err>> /\ pc' = pc)
    ]_vars

\* The game has ended by a step, after food was eaten.
C13_Witness ==
  /\ game_over
  /\ last_op = "move"
  /\ score >= 1
  /\ pc = "run"

\* C14: generate_food never loops without end: when the snake covers the
\* whole sampling region the placement stops and a fault is reported.
C14_ExhaustionReported ==
  ~(pc = "generate_food" /\ FoodRegion \subseteq Cells(snake))

\* C15: after a step that ended the game, the value move returned is the
\* collision outcome: "boundary" when the new head cell is outside the grid,
\* "self" when it is a cell of the snake.
C15_StepReportsOutcome ==
  (game_over /\ last_op = "move") =>
    /\ MoveResult \in {"boundary", "self"}
    /\ OutsideGrid(NextCell) => MoveResult = "boundary"
    /\ NextCell \in SnakeCells => MoveResult = "self"

\* C16: every cell of the snake is inside the grid [0,W) x [0,H).
C16_SnakeInsideGrid ==
  \A c \in SnakeCells : ~OutsideGrid(c)

Abs(n) == IF n < 0 THEN -n ELSE n

\* C17: in every state, running or game-over, the cells of the snake are
\* pairwise distinct.
C17_NoDuplicateCells ==
  \A i, j \in DOMAIN snake : i # j => CellOf(snake[i]) # CellOf(snake[j])

\* The game has ended on a step whose new head was a cell of the body other
\* than the tail.
C17_Witness ==
  /\ game_over
  /\ last_op = "move"
  /\ Len(snake) >= 3
  /\ \E i \in 1..(Len(snake) - 1) : NextCell = CellOf(snake[i])

\* C18: consecutive cells of the snake are at Manhattan distance 1.
C18_ConnectedPath ==
  \A i \in 1..(Len(snake) - 1) :
    Abs(CellOf(snake[i])[1] - CellOf(snake[i + 1])[1])
      + Abs(CellOf(snake[i])[2] - CellOf(snake[i + 1])[2]) = 1

\* A snake of four cells that is not a straight line.
C18_Witness ==
  /\ Len(snake) = 4
  /\ ~game_over
  /\ \E i, j \in DOMAIN snake : CellOf(snake[i])[1] # CellOf(snake[j])[1]
  /\ \E i, j \in DOMAIN snake : CellOf(snake[i])[2] # CellOf(snake[j])[2]

\* C19: after a step of a running game that does not collide, the snake is
\* the new head cell followed by the whole previous snake when the new head
\* cell is the food cell, and by the previous snake without its last cell
\* otherwise.
C19_ExactBodyUpdate ==
  [][(RunningStep /\ ~game_over')
       => SnakeCellSeq' =
            IF NextCell = CellOf(food)
              THEN <<NextCell>> \o SnakeCellSeq
              ELSE <<NextCell>> \o SubSeq(SnakeCellSeq, 1, Len(snake) - 1)
    ]_vars

\* A running snake of two cells has just stepped.
C19_Witness ==
  /\ ~game_over
  /\ last_op = "move"
  /\ Len(snake) = 2
  /\ pc = "run"

\* C20: the food cell has its column in [1, W-2] and its row in [1, H-2].
C20_FoodMargin ==
  /\ 1 <= CellOf(food)[1] /\ CellOf(food)[1] <= W - 2
  /\ 1 <= CellOf(food)[2] /\ CellOf(food)[2] <= H - 2

\* Food has been replaced after an eaten one and lies in the far corner of
\* the sampling region.
C20_Witness ==
  /\ score >= 1
  /\ pc = "run"
  /\ CellOf(food) = <<W - 2, H - 2>>

\* C21: with a fair sampler, a call of generate_food made while some cell of
\* the sampling region is off the snake returns, and the food it returns is
\* a cell of the region that is off the snake.
C21_FoodPlacementTerminates ==
  /\ (pc = "generate_food" /\ FoodRegion \ Cells(snake) # {}) ~> (pc = "run")
  /\ [][(pc = "generate_food" /\ pc' = "run")
          => (food' \in FoodRegion /\ food' \notin Cells(snake))]_vars

\* generate_food has returned three times to move, the last time with a
\* single free cell to find.
C21_Witness ==
  /\ pc = "run"
  /\ last_op = "move"
  /\ score = 3
  /\ FoodRegion \ Cells(snake) = {food}

\* C22: game_over becomes true only in a step of move whose new head cell is
\* outside the grid or a cell of the snake, and becomes false only by the
\* restart.
C22_LegalAliveTransitions ==
  [][/\ (~game_over /\ game_over')
          => (last_op' = "move"
                /\ (OutsideGrid(NextCell) \/ NextCell \in SnakeCells))
     /\ (game_over /\ ~game_over') => last_op' = "reset_game"
    ]_vars

\* A game has ended at the top or left border before any food was eaten.
C22_Witness ==
  /\ game_over
  /\ last_op = "move"
  /\ score = 0
  /\ (NextCell[1] < 0 \/ NextCell[2] < 0)

\* C23: for the head one step ahead in any direction, the rectangles of the
\* new head and of the food overlap exactly when the two are the same cell,
\* and every coordinate of the snake and of the food is a multiple of
\* CELL_SIZE.
C23_RectOverlapIsCellEquality ==
  /\ \A d \in {UP, DOWN, LEFT, RIGHT} :
       colliderect(NewHead(snake[1], d), food) <=> NewHead(snake[1], d) = food
  /\ \A c \in Cells(snake) \cup {food} :
       c[1] % CELL_SIZE = 0 /\ c[2] % CELL_SIZE = 0

\* A running snake with a body is one step from the food.
C23_Witness ==
  /\ ~game_over
  /\ pc = "run"
  /\ Len(snake) >= 2
  /\ colliderect(NewHead(snake[1], direction), food)

\* C24: score = len(snake) - 1.
C24_ScoreTracksGrowth ==
  score = Len(snake) - 1

\* A game has ended with a snake of at least four cells.
C24_Witness ==
  /\ game_over
  /\ score >= 3
  /\ Len(snake) >= 4

\* C25: speed is min(INITIAL_SPEED + SPEED_INCREMENT * score, MAX_SPEED):
\* the double that current_speed holds is the one nearest to that value.
C25_SpeedFunctionOfScore ==
  /\ current_speed = Min(INITIAL_SPEED + SPEED_INCREMENT * score, MAX_SPEED)
  /\ speed_err = RoundToDouble(current_speed, 0)

\* C26: K_SPACE on a running game changes nothing of the engine.
C26_RestartOnlyWhenOver ==
  [][(~game_over /\ last_op' \in {"K_SPACE", "reset_game"})
       => (UNCHANGED state /\ pc' = pc)]_vars

\* K_SPACE has just been handled by a running game that has eaten.
C26_Witness ==
  /\ last_op = "K_SPACE"
  /\ ~game_over
  /\ score >= 1

TypeOK ==
  /\ snake \in Seq(Int \X Int)
  /\ Len(snake) >= 1
  /\ direction \in {UP, DOWN, LEFT, RIGHT}
  /\ score \in 0..MaxScore
  /\ game_over \in BOOLEAN
  /\ pc \in {"run", "quit", "generate_food"}
====
